---- MODULE Spec2Model ----
(***************************************************************************)
(* Model of the snake game of game.py: Direction, DirectionQueue, Field,   *)
(* Snake, Food, GameTopBar and Game; and of the users collection that      *)
(* db_connection.py's DbConnection keeps the highest scores in.            *)
(*                                                                         *)
(* Python lists are sequences; a Python index i (0 = oldest) is element    *)
(* i + 1 of the sequence.  A position is a pair <<x, y>>.  An optional     *)
(* value is a sequence of length 0 (None) or 1.                            *)
(***************************************************************************)
EXTENDS Integers, Sequences, FiniteSets, TLC

VARIABLES
    current,    \* DirectionQueue._current
    pending,    \* DirectionQueue._queue
    size,       \* Field._size
    blocks,     \* Snake._blocks, head first
    alive,      \* Snake._alive
    foodPos,    \* Food._pos
    level,      \* Game._level.value
    score,      \* GameTopBar.score
    last,       \* the last event Game.update handled, with the state before it
    log,        \* the calls made on a DirectionQueue used on its own
    users,      \* the collection "users": name -> optional highest_score
    submitted   \* name -> the scores submitted since the user was inserted

queueVars == <<current, pending>>
gameVars == <<size, blocks, alive, foodPos, level, score, last>>
dbVars == <<users, submitted>>
vars == <<current, pending, size, blocks, alive, foodPos, level, score, last, log,
          users, submitted>>

\* ------------------------------------------------------------------ bounds

\* Calls made on a DirectionQueue used on its own.
MaxOps == 6
\* Field size of the modelled Game (game.py builds Field(size=20)).
FieldSize == 2
\* The snake is not grown beyond this length.
MaxLen == 3
\* Key presses buffered between two ticks of the modelled Game.
MaxPending == 1
\* The highest score submitted to a DbConnection.
MaxScore == 3

\* --------------------------------------------------------------- Direction

Direction == {"UP", "DOWN", "LEFT", "RIGHT"}

None == <<>>

axis(d) ==
    IF d \in {"UP", "DOWN"} THEN <<0, 1>> ELSE <<1, 0>>

apply(d, pos) ==
    CASE d = "UP" -> <<pos[1], pos[2] - 1>>
      [] d = "DOWN" -> <<pos[1], pos[2] + 1>>
      [] d = "LEFT" -> <<pos[1] - 1, pos[2]>>
      [] d = "RIGHT" -> <<pos[1] + 1, pos[2]>>

Keys == {"K_UP", "K_w", "K_DOWN", "K_s", "K_LEFT", "K_a", "K_RIGHT", "K_d", "K_SPACE"}

\* Mutant: case _ returns Direction.UP.
direction_or_up(key) ==
    CASE key \in {"K_DOWN", "K_s"} -> <<"DOWN">>
      [] key \in {"K_LEFT", "K_a"} -> <<"LEFT">>
      [] key \in {"K_RIGHT", "K_d"} -> <<"RIGHT">>
      [] OTHER -> <<"UP">>

direction(key) ==
    CASE key \in {"K_UP", "K_w"} -> <<"UP">>
      [] key \in {"K_DOWN", "K_s"} -> <<"DOWN">>
      [] key \in {"K_LEFT", "K_a"} -> <<"LEFT">>
      [] key \in {"K_RIGHT", "K_d"} -> <<"RIGHT">>
      [] OTHER -> None

\* ---------------------------------------------------------- DirectionQueue

\* queue[::-1]
Reversed(queue) ==
    [i \in 1..Len(queue) |-> queue[Len(queue) + 1 - i]]

\* next(... for i, dir in enumerate(rev) if dir.axis() != cur.axis()), from i on:
\* the first i whose entry is on the other axis, None when the generator ends.
RECURSIVE next_valid(_, _, _)
next_valid(rev, cur, i) ==
    IF i >= Len(rev) THEN None
    ELSE IF axis(rev[i + 1]) # axis(cur) THEN <<i>>
    ELSE next_valid(rev, cur, i + 1)

\* Mutant: scans the queue from the oldest entry.
get_first_valid_index(cur, queue) ==
    next_valid(queue, cur, 0)

\* Mutant: an entry is valid when it differs from current (not: from its axis).
get_last_differing_index(cur, queue) ==
    LET differs == {j \in 0..(Len(queue) - 1) : queue[j + 1] # cur}
    IN  IF differs = {} THEN None
        ELSE <<CHOOSE j \in differs : \A k \in differs : k <= j>>

get_last_valid_index(cur, queue) ==
    LET i == next_valid(Reversed(queue), cur, 0)
    IN  IF i = None THEN None ELSE <<Len(queue) - i[1] - 1>>

push(queue, dir) ==
    Append(queue, dir)

\* Mutant: del self._queue[:last_idx] keeps the selected entry queued.
pop_keeps_selected(cur, queue) ==
    LET last_idx == get_last_valid_index(cur, queue)
    IN  IF queue # <<>> /\ last_idx # None
        THEN [current |-> queue[last_idx[1] + 1],
              queue |-> SubSeq(queue, last_idx[1] + 1, Len(queue)),
              ret |-> queue[last_idx[1] + 1]]
        ELSE [current |-> cur, queue |-> queue, ret |-> cur]

\* Mutant: drops the oldest entry when no entry is valid.
pop_drops_invalid(cur, queue) ==
    LET last_idx == get_last_valid_index(cur, queue)
    IN  IF queue # <<>> /\ last_idx # None
        THEN [current |-> queue[last_idx[1] + 1],
              queue |-> SubSeq(queue, last_idx[1] + 2, Len(queue)),
              ret |-> queue[last_idx[1] + 1]]
        ELSE [current |-> cur, queue |-> IF queue = <<>> THEN queue ELSE Tail(queue),
              ret |-> cur]

\* Mutant: self._queue.clear() drops the entries pushed after the selected one.
pop_clears_queue(cur, queue) ==
    LET last_idx == get_last_valid_index(cur, queue)
    IN  IF queue # <<>> /\ last_idx # None
        THEN [current |-> queue[last_idx[1] + 1],
              queue |-> <<>>,
              ret |-> queue[last_idx[1] + 1]]
        ELSE [current |-> cur, queue |-> queue, ret |-> cur]

\* The queue's state after pop(), and the direction pop() returns.
pop(cur, queue) ==
    LET last_idx == get_last_valid_index(cur, queue)
    IN  IF queue # <<>> /\ last_idx # None
        THEN [current |-> queue[last_idx[1] + 1],
              queue |-> SubSeq(queue, last_idx[1] + 2, Len(queue)),
              ret |-> queue[last_idx[1] + 1]]
        ELSE [current |-> cur, queue |-> queue, ret |-> cur]

\* ------------------------------------------------------------ DbConnection

\* The user names the calls are made with.
Names ==
    {"ann", "bob"}

\* The scores the calls are made with.
Scores ==
    (0 - 1)..MaxScore

\* No DbConnection is used.
NoDb ==
    /\ users = [name \in Names |-> None]
    /\ submitted = [name \in Names |-> {}]

\* update_highest_score with $set in place of $max.
set_highest_score(coll, username, sc) ==
    IF coll[username] = None
    THEN coll
    ELSE [coll EXCEPT ![username] = <<sc>>]

\* DbConnection.create_user: update_one with upsert; $setOnInsert writes
\* highest_score 0 into the document the call inserts and nothing into a
\* document that is there already.
create_user(coll, username) ==
    IF coll[username] = None
    THEN [coll EXCEPT ![username] = <<0>>]
    ELSE coll

\* DbConnection.update_highest_score: update_one without upsert; $max writes
\* the score when it is greater than the stored one; no document, no change.
update_highest_score(coll, username, sc) ==
    IF coll[username] = None
    THEN coll
    ELSE [coll EXCEPT ![username] = <<IF sc > coll[username][1]
                                      THEN sc
                                      ELSE coll[username][1]>>]

\* ----------------------------------------------- a DirectionQueue on its own

\* No Game is built around the queue.
NoGame ==
    /\ size = 0
    /\ blocks = <<>>
    /\ alive = TRUE
    /\ foodPos = <<0, 0>>
    /\ level = 0
    /\ score = 0
    /\ last = [ev |-> "none"]

\* DirectionQueue(current), current any direction.
QueueInit ==
    /\ current \in Direction
    /\ pending = <<>>
    /\ log = <<>>
    /\ NoGame
    /\ NoDb

\* One log entry: the call, its argument (push) or result (pop), and the queue
\* before the call.
Call(op, dir) ==
    [op |-> op, dir |-> dir, current |-> current, queue |-> pending]

QueuePush(dir) ==
    /\ Len(log) < MaxOps
    /\ pending' = push(pending, dir)
    /\ log' = Append(log, Call("push", dir))
    /\ UNCHANGED <<current, gameVars, dbVars>>

QueuePop ==
    /\ Len(log) < MaxOps
    /\ LET r == pop(current, pending)
       IN  /\ current' = r.current
           /\ pending' = r.queue
           /\ log' = Append(log, Call("pop", r.ret))
    /\ UNCHANGED <<gameVars, dbVars>>

QueueNext ==
    \/ \E dir \in Direction : QueuePush(dir)
    \/ QueuePop

SpecQueue == QueueInit /\ [][QueueNext]_vars

\* ------------------------------------------------------------------ Field

\* Mutant: a remainder that keeps the sign of the coordinate, as C's % does.
get_truncated_position(pos) ==
    <<IF pos[1] < 0 THEN pos[1] ELSE pos[1] % size,
      IF pos[2] < 0 THEN pos[2] ELSE pos[2] % size>>

get_overflow_position(pos) ==
    <<pos[1] % size, pos[2] % size>>

\* ------------------------------------------------------------------ Snake

\* Snake.__init__: one block at the centre of the field.
InitialBlocks(n) ==
    <<(<<n \div 2, n \div 2>>)>>

change_direction(queue, dir) ==
    push(queue, dir)

head(blks) ==
    blks[1]

\* pos in self._blocks
contains(blks, pos) ==
    \E i \in 1..Len(blks) : blks[i] = pos

\* Mutant: the tail is removed on every move.
insert_and_always_retract(blks, new_head_pos, food_pos) ==
    SubSeq(<<new_head_pos>> \o blks, 1, Len(blks))

\* self._blocks.insert(0, new_head_pos), then self._blocks.pop() unless the new
\* head is on the food.
insert_and_retract(blks, new_head_pos, food_pos) ==
    LET inserted == <<new_head_pos>> \o blks
    IN  IF new_head_pos # food_pos
        THEN SubSeq(inserted, 1, Len(inserted) - 1)
        ELSE inserted

\* Mutant: self.head() in self._blocks[1 : len(self._blocks) - 1] skips the tail.
hits_body_before_tail(blks) ==
    \E i \in 2..(Len(blks) - 1) : blks[i] = blks[1]

\* self.head() in self._blocks[1 : len(self._blocks)]
hits_body(blks) ==
    contains(SubSeq(blks, 2, Len(blks)), head(blks))

\* Mutant: the collision test runs before the tail is removed.
move_tests_before_retraction(cur, queue, blks, isAlive, food_pos) ==
    LET p == pop(cur, queue)
        new_head_pos == get_overflow_position(apply(p.ret, blks[1]))
        moved == insert_and_retract(blks, new_head_pos, food_pos)
    IN  [current |-> p.current,
         queue |-> p.queue,
         blocks |-> moved,
         alive |-> IF hits_body(<<new_head_pos>> \o blks) THEN FALSE ELSE isAlive]

\* Mutant: self._alive = not collided, on every move.
move_assigns_alive(cur, queue, blks, isAlive, food_pos) ==
    LET p == pop(cur, queue)
        new_head_pos == get_overflow_position(apply(p.ret, blks[1]))
        moved == insert_and_retract(blks, new_head_pos, food_pos)
    IN  [current |-> p.current,
         queue |-> p.queue,
         blocks |-> moved,
         alive |-> ~hits_body(moved)]

\* The snake after move(food_pos): its direction queue, blocks and alive flag.
move(cur, queue, blks, isAlive, food_pos) ==
    LET p == pop(cur, queue)
        new_head_pos == get_overflow_position(apply(p.ret, blks[1]))
        moved == insert_and_retract(blks, new_head_pos, food_pos)
    IN  [current |-> p.current,
         queue |-> p.queue,
         blocks |-> moved,
         alive |-> IF hits_body(moved) THEN FALSE ELSE isAlive]

\* ------------------------------------------------------------------- Food

Cells ==
    (0..(size - 1)) \X (0..(size - 1))

\* Mutant: while self._pos == self._snake.head() keeps the food off the head only.
respawn_off_head(pos, blks) ==
    IF pos # blks[1] THEN {pos}
    ELSE {c \in Cells : c # blks[1]}

\* The positions respawn() can leave the food at: pos itself when it is not in
\* the snake, else any cell the random draws can end on.  respawn() returns
\* nothing (it loops for ever) when the snake covers the field.
respawn(pos, blks) ==
    IF ~contains(blks, pos) THEN {pos}
    ELSE {c \in Cells : ~contains(blks, c)}

\* ------------------------------------------------------------------- Game

Level == {1, 2, 4}

\* Mutant: len(self._snake) * self._level.value, the spawn block scores.
get_score_of_length(blks, lvl) ==
    Len(blks) * lvl

get_score(blks, lvl) ==
    (Len(blks) - 1) * lvl

\* The state an event is handled in, kept with the event.
Event(ev, key, dir) ==
    [ev |-> ev, key |-> key, dir |-> dir, current |-> current, pending |-> pending,
     blocks |-> blocks, alive |-> alive, foodPos |-> foodPos, score |-> score]

\* Game(level, highest_score): GameTopBar, Field, Snake with a random heading,
\* Food respawned off the snake's head.
GameInitOn(n) ==
    /\ size = n
    /\ blocks = InitialBlocks(size)
    /\ alive = TRUE
    /\ current \in Direction
    /\ pending = <<>>
    /\ foodPos \in respawn(head(blocks), blocks)
    /\ level \in Level
    /\ score = 0
    /\ last = [ev |-> "init", key |-> None, dir |-> None, current |-> current, pending |-> pending,
               blocks |-> blocks, alive |-> alive, foodPos |-> foodPos, score |-> score]
    /\ log = <<>>
    /\ NoDb

GameInit == GameInitOn(FieldSize)

\* Game.update, case pygame.KEYDOWN: a key that maps to a direction is pushed.
KeyDown(key) ==
    /\ LET dir == direction(key)
       IN  /\ last' = Event("KEYDOWN", key, dir)
           /\ IF dir # None
              THEN /\ Len(pending) < MaxPending
                   /\ pending' = change_direction(pending, dir[1])
              ELSE UNCHANGED pending
    /\ UNCHANGED <<current, size, blocks, alive, foodPos, level, score, log, dbVars>>

\* Game._move with the top bar written before the snake has moved.
MoveEventWithStaleScore(maxLen) ==
    /\ LET m == move(current, pending, blocks, alive, foodPos)
       IN  /\ Len(m.blocks) <= maxLen
           /\ current' = m.current
           /\ pending' = m.queue
           /\ blocks' = m.blocks
           /\ alive' = m.alive
           /\ IF foodPos = head(m.blocks)
              THEN /\ foodPos' \in respawn(foodPos, m.blocks)
                   /\ score' = get_score(blocks, level)
              ELSE UNCHANGED <<foodPos, score>>
    /\ last' = Event("MOVEEVENT", None, None)
    /\ UNCHANGED <<size, level, log, dbVars>>

\* Game._move with the food respawned on every tick.
MoveEventAlwaysRespawning(maxLen) ==
    /\ LET m == move(current, pending, blocks, alive, foodPos)
       IN  /\ Len(m.blocks) <= maxLen
           /\ current' = m.current
           /\ pending' = m.queue
           /\ blocks' = m.blocks
           /\ alive' = m.alive
           /\ foodPos' \in {pos \in Cells : ~contains(m.blocks, pos)}
           /\ score' = get_score(m.blocks, level)
    /\ last' = Event("MOVEEVENT", None, None)
    /\ UNCHANGED <<size, level, log, dbVars>>

\* Game.update, case Game.MOVEEVENT: Game._move.  Neither Game.update nor
\* Game._move nor Snake.move looks at Snake._alive.  The event is not handled
\* to its end when respawn() has no cell to return.
\* maxLen bounds the growth of the snake.
MoveEventUpTo(maxLen) ==
    /\ LET m == move(current, pending, blocks, alive, foodPos)
       IN  /\ Len(m.blocks) <= maxLen
           /\ current' = m.current
           /\ pending' = m.queue
           /\ blocks' = m.blocks
           /\ alive' = m.alive
           /\ IF foodPos = head(m.blocks)
              THEN /\ foodPos' \in respawn(foodPos, m.blocks)
                   /\ score' = get_score(m.blocks, level)
              ELSE UNCHANGED <<foodPos, score>>
    /\ last' = Event("MOVEEVENT", None, None)
    /\ UNCHANGED <<size, level, log, dbVars>>

MoveEvent == MoveEventUpTo(MaxLen)

\* Game.update, case pygame.QUIT: sets Game._running, which nothing reads.
Quit ==
    /\ last' = Event("QUIT", None, None)
    /\ UNCHANGED <<current, pending, size, blocks, alive, foodPos, level, score, log, dbVars>>

Next ==
    \/ \E key \in Keys : KeyDown(key)
    \/ MoveEvent
    \/ Quit

Init == GameInit

Spec == Init /\ [][Next]_vars

\* ------------------------------------------- the Game on a field of size 4

\* Game with Field(size=4): the smallest field on which going straight on, or
\* round a row, does not lead back onto the body of a short snake.
\* The level, which no move reads, is Level.EASY.
ShortInit ==
    /\ GameInitOn(4)
    /\ level = 1

\* The snake grows to four blocks.
ShortNext ==
    \/ \E key \in Keys : KeyDown(key)
    \/ MoveEventUpTo(4)
    \/ Quit

SpecShort == ShortInit /\ [][ShortNext]_vars

\* ------------------------------------- Food.respawn, one random draw a step

\* The largest even field size up to FieldSize.
EvenFieldSize ==
    2 * (FieldSize \div 2)

EvenCells ==
    (0..(EvenFieldSize - 1)) \X (0..(EvenFieldSize - 1))

\* Mutant: random.randint(1, size - 1) never draws coordinate 0.
random_positions_from_one ==
    (1..(size - 1)) \X (1..(size - 1))

\* (random.randint(0, size - 1), random.randint(0, size - 1))
random_positions ==
    (0..(size - 1)) \X (0..(size - 1))

\* while self._pos in self._snake: respawn() is in its loop.
Respawning ==
    contains(blocks, foodPos)

\* Game.__init__ up to Food.__init__'s self._pos = self._snake.head(), before
\* the loop of the first respawn().
RespawnInit ==
    /\ size = EvenFieldSize
    /\ blocks = InitialBlocks(size)
    /\ alive = TRUE
    /\ current \in Direction
    /\ pending = <<>>
    /\ foodPos = head(blocks)
    /\ level \in Level
    /\ score = 0
    /\ last = [ev |-> "init", key |-> None, dir |-> None, current |-> current,
               pending |-> pending, blocks |-> blocks, alive |-> alive,
               foodPos |-> foodPos, score |-> score]
    /\ log = <<>>
    /\ NoDb

\* One pass of the loop of respawn(): the food is put on pos.  When pos is off
\* the snake the loop ends, and Game._move, if it called, sets the score.
RespawnDraw(pos) ==
    /\ Respawning
    /\ pos \in random_positions
    /\ foodPos' = pos
    /\ IF ~contains(blocks, pos) /\ last.ev = "MOVEEVENT"
       THEN score' = get_score(blocks, level)
       ELSE UNCHANGED score
    /\ UNCHANGED <<current, pending, size, blocks, alive, level, last, log, dbVars>>

\* Game._move up to the call of respawn(): on the food, the loop starts.  The
\* snake grows while the field has room for it.
RespawnMove ==
    /\ ~Respawning
    /\ LET m == move(current, pending, blocks, alive, foodPos)
       IN  /\ Len(m.blocks) <= size * size
           /\ current' = m.current
           /\ pending' = m.queue
           /\ blocks' = m.blocks
           /\ alive' = m.alive
    /\ last' = Event("MOVEEVENT", None, None)
    /\ UNCHANGED <<size, foodPos, level, score, log, dbVars>>

\* Events are handled one after the other: none while respawn() runs.
RespawnNext ==
    \/ \E pos \in EvenCells : RespawnDraw(pos)
    \/ RespawnMove
    \/ ~Respawning /\ \E key \in Keys : KeyDown(key)
    \/ ~Respawning /\ Quit

SpecRespawn == RespawnInit /\ [][RespawnNext]_vars

\* Fair random sampling: a position the draws could produce for ever is drawn.
FairSpecRespawn ==
    /\ SpecRespawn
    /\ \A pos \in EvenCells : WF_vars(RespawnDraw(pos))

\* ------------------------------------------- a DbConnection on its own

\* An empty collection; no Game and no DirectionQueue.
DbInit ==
    /\ NoDb
    /\ NoGame
    /\ current = "UP"
    /\ pending = <<>>
    /\ log = <<>>

\* The call, its arguments, and the collection before the call.
DbCall(op, username, sc) ==
    [ev |-> op, name |-> username, score |-> sc, users |-> users]

DbCreateUser(username) ==
    /\ users' = create_user(users, username)
    /\ submitted' = IF users[username] = None
                    THEN [submitted EXCEPT ![username] = {}]
                    ELSE submitted
    /\ last' = DbCall("create_user", username, None)
    /\ UNCHANGED <<current, pending, size, blocks, alive, foodPos, level, score, log>>

DbUpdateHighestScore(username, sc) ==
    /\ users' = update_highest_score(users, username, sc)
    /\ submitted' = IF users[username] = None
                    THEN submitted
                    ELSE [submitted EXCEPT ![username] = @ \cup {sc}]
    /\ last' = DbCall("update_highest_score", username, <<sc>>)
    /\ UNCHANGED <<current, pending, size, blocks, alive, foodPos, level, score, log>>

DbNext ==
    \/ \E username \in Names : DbCreateUser(username)
    \/ \E username \in Names, sc \in Scores : DbUpdateHighestScore(username, sc)

SpecDb == DbInit /\ [][DbNext]_vars

\* ------------------------------------------ properties of the DirectionQueue

Opposite(d) ==
    CASE d = "UP" -> "DOWN"
      [] d = "DOWN" -> "UP"
      [] d = "LEFT" -> "RIGHT"
      [] d = "RIGHT" -> "LEFT"

\* d is a repeat of cur or its exact opposite.
OnAxisOf(cur, d) ==
    d \in {cur, Opposite(cur)}

\* The positions (1 = oldest) of the entries of queue on the other axis than cur.
OffAxis(cur, queue) ==
    {i \in 1..Len(queue) : ~OnAxisOf(cur, queue[i])}

Newest(S) ==
    CHOOSE i \in S : \A j \in S : j <= i

LastCall ==
    log[Len(log)]

JustPopped ==
    log # <<>> /\ LastCall.op = "pop"

\* C1: pop() on a pending queue that is empty or holds only directions on the
\* axis of current returns current and changes neither current nor pending.
C1_AxisFiltering ==
    (JustPopped /\ OffAxis(LastCall.current, LastCall.queue) = {})
        => /\ LastCall.dir = LastCall.current
           /\ current = LastCall.current
           /\ pending = LastCall.queue

\* A pop() that met a queue of repeats and reversals only.
C1_Witness ==
    /\ JustPopped
    /\ Len(LastCall.queue) >= 2
    /\ OffAxis(LastCall.current, LastCall.queue) = {}
    /\ \E i \in 1..Len(LastCall.queue) : LastCall.queue[i] = Opposite(LastCall.current)
    /\ \E i \in 1..Len(LastCall.queue) : LastCall.queue[i] = LastCall.current

\* C2: pop() on a pending queue with an entry on the other axis returns, and
\* sets current to, the most recently pushed such entry.
C2_MostRecentValidWins ==
    (JustPopped /\ OffAxis(LastCall.current, LastCall.queue) # {})
        => LET i == Newest(OffAxis(LastCall.current, LastCall.queue))
           IN  /\ LastCall.dir = LastCall.queue[i]
               /\ current = LastCall.queue[i]

\* A pop() that met two valid entries with different directions.
C2_Witness ==
    /\ JustPopped
    /\ \E i, j \in OffAxis(LastCall.current, LastCall.queue) :
          /\ i < j
          /\ LastCall.queue[i] # LastCall.queue[j]
          /\ j = Newest(OffAxis(LastCall.current, LastCall.queue))
          /\ current = LastCall.queue[j]

\* C3: when pop() selects the entry at position i, pending afterwards is the
\* former entries after position i, in their order.
C3_RemainderRetention ==
    (JustPopped /\ OffAxis(LastCall.current, LastCall.queue) # {})
        => LET i == Newest(OffAxis(LastCall.current, LastCall.queue))
           IN  pending = SubSeq(LastCall.queue, i + 1, Len(LastCall.queue))

\* A pop() that selected an entry with older entries before it and newer ones
\* after it.
C3_Witness ==
    /\ JustPopped
    /\ OffAxis(LastCall.current, LastCall.queue) # {}
    /\ LET i == Newest(OffAxis(LastCall.current, LastCall.queue))
       IN  /\ 1 < i
           /\ i < Len(LastCall.queue)
           /\ pending # <<>>

\* The last four calls were push(DOWN) on an empty queue, push(RIGHT), pop(), pop().
DownRightThenTwoTicks ==
    /\ Len(log) >= 4
    /\ LET n == Len(log)
       IN  /\ log[n - 3].op = "push" /\ log[n - 3].dir = "DOWN"
           /\ log[n - 3].queue = <<>>
           /\ log[n - 2].op = "push" /\ log[n - 2].dir = "RIGHT"
           /\ log[n - 1].op = "pop"
           /\ log[n].op = "pop"

\* C4 as claimed: whatever current is, Down and Right pushed in one tick are
\* returned by that tick's pop() and the next one's, in this order.
C4_AnyCurrent ==
    DownRightThenTwoTicks
        => log[Len(log) - 1].dir = "DOWN" /\ log[Len(log)].dir = "RIGHT"

\* C4 (amended): when current is Left or Right, Down and Right pushed in one
\* tick are returned by that tick's pop() and the next one's, in this order;
\* when current is Up or Down, both pops return Right.
C4_TwoCommandsInSequence ==
    DownRightThenTwoTicks
        => IF log[Len(log) - 3].current \in {"LEFT", "RIGHT"}
           THEN log[Len(log) - 1].dir = "DOWN" /\ log[Len(log)].dir = "RIGHT"
           ELSE log[Len(log) - 1].dir = "RIGHT" /\ log[Len(log)].dir = "RIGHT"

\* Down then Right were pushed while heading Left, and two ticks followed.
C4_Witness ==
    /\ DownRightThenTwoTicks
    /\ log[Len(log) - 3].current = "LEFT"
    /\ log[Len(log) - 1].dir = "DOWN"
    /\ current = "RIGHT"

\* The direction in effect before call n: what the pop() before it returned, or
\* the initial current.
EffectiveBefore(n) ==
    LET pops == {i \in 1..(n - 1) : log[i].op = "pop"}
    IN  IF pops = {} THEN log[1].current ELSE log[Newest(pops)].dir

\* C5: the direction a pop() returns is never the opposite of the direction the
\* previous pop() returned (of the initial current, for the first pop()): it is
\* the same direction or one on the other axis.
C5_NeverReverses ==
    JustPopped
        => /\ LastCall.dir # Opposite(EffectiveBefore(Len(log)))
           /\ \/ LastCall.dir = EffectiveBefore(Len(log))
              \/ ~OnAxisOf(EffectiveBefore(Len(log)), LastCall.dir)

\* A pop() after an earlier pop(), with the reversal of the earlier result
\* pushed in between.
C5_Witness ==
    /\ JustPopped
    /\ \E i \in 1..(Len(log) - 1) : log[i].op = "pop"
    /\ \E i \in 1..Len(LastCall.queue) :
          LastCall.queue[i] = Opposite(EffectiveBefore(Len(log)))
    /\ LastCall.dir # EffectiveBefore(Len(log))

\* ------------------------------------------------- properties of the Game

JustMoved ==
    last.ev = "MOVEEVENT"

\* The snake's last block before the last event.
TailBefore ==
    last.blocks[Len(last.blocks)]

\* All of a sequence but its last element.
Front(seq) ==
    SubSeq(seq, 1, Len(seq) - 1)

\* C6: a move whose new head is the food position makes the body one block
\* longer and keeps the previous tail; any other move inserts the head, removes
\* the tail and keeps the length.  No event shortens the body or grows it by
\* more than one.
C6_GrowthOrRetraction ==
    /\ JustMoved =>
          IF blocks[1] = last.foodPos
          THEN /\ Len(blocks) = Len(last.blocks) + 1
               /\ blocks = <<blocks[1]>> \o last.blocks
               /\ blocks[Len(blocks)] = TailBefore
          ELSE /\ Len(blocks) = Len(last.blocks)
               /\ blocks = <<blocks[1]>> \o Front(last.blocks)
    /\ Len(blocks) >= Len(last.blocks)
    /\ Len(blocks) <= Len(last.blocks) + 1

\* A snake of two blocks ate the food and has three blocks.
C6_Witness ==
    /\ JustMoved
    /\ blocks[1] = last.foodPos
    /\ Len(last.blocks) = 2
    /\ Len(blocks) = 3
    /\ foodPos # last.foodPos

\* C7: a move of an alive snake leaves it dead exactly when the new head is
\* also a block at index >= 1 of the body as it is after the retraction.
C7_SelfCollision ==
    (JustMoved /\ last.alive)
        => (~alive <=> \E i \in 2..Len(blocks) : blocks[i] = blocks[1])

\* An alive snake moved onto its own body and is dead.
C7_Witness ==
    /\ JustMoved
    /\ last.alive
    /\ ~alive
    /\ \E i \in 2..Len(blocks) : blocks[i] = blocks[1]

\* The last move did not eat, and its new head is the cell the tail was on
\* before it and no other block of the body before it.
MovedOntoVacatedTail ==
    /\ JustMoved
    /\ blocks[1] # last.foodPos
    /\ blocks[1] = TailBefore
    /\ \A i \in 1..(Len(last.blocks) - 1) : last.blocks[i] # blocks[1]

\* C8: an alive snake that makes a non-eating move onto the cell its tail
\* leaves in that move stays alive.
C8_VacatedTailIsFree ==
    (MovedOntoVacatedTail /\ last.alive) => alive

\* An alive snake of at least two blocks moved onto its vacated tail cell.
C8_Witness ==
    /\ MovedOntoVacatedTail
    /\ last.alive
    /\ Len(last.blocks) >= 2
    /\ alive

\* C9: a tick on a dead snake changes neither the body, nor the food position,
\* nor the direction queue.
C9_DeadFreezesTicks ==
    (JustMoved /\ ~last.alive)
        => /\ blocks = last.blocks
           /\ foodPos = last.foodPos
           /\ current = last.current
           /\ pending = last.pending

\* C10: a snake that is dead before an event is dead after it.
C10_DeadIsTerminal ==
    (last.ev # "init" /\ ~last.alive) => ~alive

\* A dead snake moved onto a cell off its body, and is still dead.
C10_Witness ==
    /\ JustMoved
    /\ ~last.alive
    /\ ~alive
    /\ \A i \in 2..Len(blocks) : blocks[i] # blocks[1]

\* The last event was a key press that maps to a direction.
JustPressed ==
    last.ev = "KEYDOWN" /\ last.dir # None

\* C11: change_direction(d) on a dead snake changes neither the direction
\* queue nor anything else of the snake.
C11_DeadIgnoresKeys ==
    (JustPressed /\ ~last.alive)
        => /\ current = last.current
           /\ pending = last.pending
           /\ blocks = last.blocks
           /\ alive = last.alive

\* The last tick put the head on the food.
JustAte ==
    JustMoved /\ blocks[1] = last.foodPos

\* C12: between events the food position is not a block of the snake.
C12_FoodOffSnake ==
    \A i \in 1..Len(blocks) : blocks[i] # foodPos

\* A snake of two blocks ate, and the food is on one of the cells left free.
C12_Witness ==
    /\ JustAte
    /\ Len(blocks) = 3
    /\ foodPos # last.foodPos
    /\ \A i \in 1..Len(blocks) : blocks[i] # foodPos

\* The coordinates 0 .. size - 1.
OnField(pos) ==
    /\ pos[1] \in 0..(size - 1)
    /\ pos[2] \in 0..(size - 1)

\* Coordinate pairs around the field, -1 and size among them.
NearField ==
    ((0 - size - 1)..(2 * size)) \X ((0 - size - 1)..(2 * size))

\* C13: get_overflow_position maps every coordinate pair onto the field and is
\* idempotent (the field never changes: checked on the pairs around it when the
\* game is built, and on the four steps off the head in every state); every
\* block of the snake and the food position are on the field.
C13_ToroidalWrap ==
    /\ \A pos \in (IF last.ev = "init" THEN NearField
                    ELSE {apply(d, blocks[1]) : d \in Direction}) :
          /\ OnField(get_overflow_position(pos))
          /\ get_overflow_position(get_overflow_position(pos)) = get_overflow_position(pos)
    /\ \A i \in 1..Len(blocks) : OnField(blocks[i])
    /\ OnField(foodPos)

\* The head left the field over the edge at coordinate 0 and re-entered at
\* coordinate size - 1.
C13_Witness ==
    /\ JustMoved
    /\ \/ last.blocks[1][1] = 0 /\ current = "LEFT" /\ blocks[1] = <<size - 1, last.blocks[1][2]>>
       \/ last.blocks[1][2] = 0 /\ current = "UP" /\ blocks[1] = <<last.blocks[1][1], size - 1>>

\* a and b differ by one wrapped step along one axis.
TorusNeighbours(a, b) ==
    \/ a[2] = b[2] /\ \E step \in {1, size - 1} : a[1] = (b[1] + step) % size
    \/ a[1] = b[1] /\ \E step \in {1, size - 1} : a[2] = (b[2] + step) % size

\* C14: while the snake is alive its body is not empty, its blocks are pairwise
\* distinct and consecutive blocks are neighbours on the torus.
C14_BodyShape ==
    alive
        => /\ Len(blocks) >= 1
           /\ \A i, j \in 1..Len(blocks) : i # j => blocks[i] # blocks[j]
           /\ \A i \in 1..(Len(blocks) - 1) : TorusNeighbours(blocks[i], blocks[i + 1])

\* An alive snake of three blocks that turned a corner.
C14_Witness ==
    /\ alive
    /\ Len(blocks) = 3
    /\ blocks[1][1] # blocks[3][1]
    /\ blocks[1][2] # blocks[3][2]

\* C15: get_score() is (length of the body - 1) * level multiplier, the level
\* multiplier being 1, 2 or 4: 0 for the snake as spawned, and one multiplier
\* more for each food eaten.
C15_ScoreFormula ==
    /\ level \in {1, 2, 4}
    /\ get_score(blocks, level) = (Len(blocks) - 1) * level
    /\ last.ev = "init" => get_score(blocks, level) = 0
    /\ JustAte => get_score(blocks, level) = get_score(last.blocks, level) + level
    /\ (JustMoved /\ ~JustAte) => get_score(blocks, level) = get_score(last.blocks, level)

\* The second food eaten at level HARD: the score is 8.
C15_Witness ==
    /\ JustAte
    /\ level = 4
    /\ Len(blocks) = 3
    /\ get_score(blocks, level) = 8

\* The arrow keys and w, a, s, d.
DirectionKeys ==
    {"K_UP", "K_w", "K_DOWN", "K_s", "K_LEFT", "K_a", "K_RIGHT", "K_d"}

\* C17: a key press that maps to no direction changes neither the direction
\* queue, nor the body, nor the food; current and every pending entry are
\* directions.
C17_UnmappedKeysIgnored ==
    /\ (last.ev = "KEYDOWN" /\ last.key \notin DirectionKeys)
          => /\ current = last.current
             /\ pending = last.pending
             /\ blocks = last.blocks
             /\ foodPos = last.foodPos
    /\ current \in Direction
    /\ \A i \in 1..Len(pending) : pending[i] \in Direction

\* An unmapped key was pressed during a game in which the snake has grown.
C17_Witness ==
    /\ last.ev = "KEYDOWN"
    /\ last.key \notin DirectionKeys
    /\ Len(blocks) >= 2
    /\ pending = last.pending

\* ---------------------------------- the DirectionQueue over several ticks

\* The number of push() calls between the pop() before call n and call n.
PushesBefore(n) ==
    LET pops == {i \in 1..(n - 1) : log[i].op = "pop"}
    IN  IF pops = {} THEN n - 1 ELSE n - 1 - Newest(pops)

\* C18 as claimed: after a pop() pending holds at most as many entries as were
\* pushed since the previous pop().
C18_BoundedByOneTick ==
    JustPopped => Len(pending) <= PushesBefore(Len(log))

\* C18 (amended): a pop() that finds an entry off the axis of current leaves at
\* most as many entries as were pushed since the previous pop(); a pop() that
\* finds none leaves every entry queued, those of earlier ticks included.
C18_BoundedWhenSelecting ==
    JustPopped
        => IF OffAxis(LastCall.current, LastCall.queue) # {}
           THEN Len(pending) <= PushesBefore(Len(log))
           ELSE pending = LastCall.queue

\* A pop() selected an entry left over from an earlier tick, with entries
\* pushed since then behind it.
C18_Witness ==
    /\ JustPopped
    /\ OffAxis(LastCall.current, LastCall.queue) # {}
    /\ Len(LastCall.queue) > PushesBefore(Len(log))
    /\ PushesBefore(Len(log)) >= 1
    /\ Len(pending) = PushesBefore(Len(log))

\* The last three calls were pop().
ThreeTicks ==
    /\ Len(log) >= 3
    /\ \A i \in (Len(log) - 2)..Len(log) : log[i].op = "pop"

\* C19: after a pop() the entries left in pending are on one axis; of three
\* pop() calls in a row the third returns what the second returned and changes
\* neither current nor pending.
C19_DrainsInTwoTicks ==
    /\ JustPopped => \A i, j \in 1..Len(pending) : OnAxisOf(pending[i], pending[j])
    /\ ThreeTicks
          => /\ LastCall.dir = log[Len(log) - 1].dir
             /\ current = LastCall.current
             /\ pending = LastCall.queue

\* Three ticks in a row of which the first and the second changed direction.
C19_Witness ==
    /\ ThreeTicks
    /\ log[Len(log) - 2].dir # log[Len(log) - 2].current
    /\ log[Len(log) - 1].dir # log[Len(log) - 2].dir
    /\ LastCall.dir = log[Len(log) - 1].dir
    /\ Len(log[Len(log) - 2].queue) >= 3

\* ------------------------------------------------- the short snake (size 4)

\* C20: on the field of size 4 no tick that leaves an alive snake with at most
\* four blocks kills it.
C20_ShortSnakeSurvives ==
    (JustMoved /\ last.alive /\ Len(blocks) <= 4) => alive

\* A snake of four blocks turned back towards its own body, onto the cell its
\* tail left in that tick, and is alive.
C20_Witness ==
    /\ size = 4
    /\ MovedOntoVacatedTail
    /\ last.alive
    /\ Len(blocks) = 4
    /\ alive

\* ------------------------------------------------ termination of respawn()

\* The cells of the field that are not blocks of the snake.
FreeCells ==
    {c \in (0..(size - 1)) \X (0..(size - 1)) : \A i \in 1..Len(blocks) : blocks[i] # c}

\* C16: under fair sampling respawn() returns when a cell of the field is free
\* of the snake, and does not return when the snake covers the field.
C16_RespawnTermination ==
    /\ (Respawning /\ FreeCells # {}) ~> ~Respawning
    /\ [][(Respawning /\ FreeCells = {}) => Respawning']_vars

\* A tick of an alive snake ate the food on the last free cell: respawn() is
\* in its loop and the snake covers the field.
C16_Witness ==
    /\ JustMoved
    /\ last.alive
    /\ alive
    /\ blocks[1] = last.foodPos
    /\ Len(blocks) = size * size
    /\ FreeCells = {}
    /\ Respawning

\* --------------------------------------------------- the displayed score

\* C21: between events GameTopBar.score equals Game.get_score(), (length of
\* the body - 1) * level multiplier, although the top bar is written only on
\* the ticks on which the food is eaten.
C21_ScoreInSync ==
    /\ score = (Len(blocks) - 1) * level
    /\ (JustMoved /\ ~JustAte) => score = last.score

\* A tick without food after a tick with food: the top bar was not written and
\* still shows the score of a snake of two blocks at level MEDIUM.
C21_Witness ==
    /\ JustMoved
    /\ ~JustAte
    /\ level = 2
    /\ Len(blocks) = 2
    /\ score = 2
    /\ last.score = 2

\* ------------------------------------- frame conditions of tick and input

\* The direction each mapped key stands for.
KeyDirection ==
    [key \in DirectionKeys |->
        CASE key \in {"K_UP", "K_w"} -> "UP"
          [] key \in {"K_DOWN", "K_s"} -> "DOWN"
          [] key \in {"K_LEFT", "K_a"} -> "LEFT"
          [] key \in {"K_RIGHT", "K_d"} -> "RIGHT"]

Max(S) ==
    CHOOSE x \in S : \A y \in S : y <= x

\* The last call was made on a DbConnection.
JustCalledDb ==
    last.ev \in {"create_user", "update_highest_score"}

\* C23: over every sequence of create_user and update_highest_score calls,
\* no call removes a user or lowers a stored highest_score; create_user for a
\* user that exists leaves the collection as it was; and the stored
\* highest_score of a user is the maximum of 0 and the scores submitted for
\* the user since the create_user call that inserted the user.
C23_HighestScoreMonotone ==
    /\ JustCalledDb
          => \A name \in Names :
                last.users[name] # None
                    => /\ users[name] # None
                       /\ users[name][1] >= last.users[name][1]
    /\ (last.ev = "create_user" /\ last.users[last.name] # None)
          => users = last.users
    /\ \A name \in Names :
          users[name] # None => users[name][1] = Max({0} \cup submitted[name])

\* create_user for a user whose stored score is MaxScore, after a lower score
\* was submitted too: the stored score is still MaxScore.
C23_Witness ==
    /\ last.ev = "create_user"
    /\ last.users[last.name] = <<MaxScore>>
    /\ users[last.name] = <<MaxScore>>
    /\ submitted[last.name] = {1, MaxScore}

====
